---- MODULE Spec2Model ----
(***************************************************************************)
(* gitlab-xsearch: the repository paginator (client.rs, get_projects),     *)
(* the per-repository searcher with its 429 retry loop (client.rs,         *)
(* search_in_project), the bounded fan-out in main (main.rs,               *)
(* buffer_unordered over spawned tasks) and the row mapper (models.rs).    *)
(***************************************************************************)
EXTENDS Integers, Sequences, FiniteSets, TLC

VARIABLES
    script,      \* listing server: the response it gives to the n-th page request
    srv,         \* search server: per project id, its answers to successive requests
    phase,       \* main: "listing", "searching", "done", "aborted"
    page,        \* get_projects: page
    projects,    \* get_projects: projects, its return value on Ok
    cliMax,      \* main: the --max argument, an Option
    repos,       \* main: projects, the sequence handed to the fan-out
    requested,   \* the page numbers get_projects has requested, in order
    exitErr,     \* main's Err return value, "none" while there is none
    pending,     \* stream::iter(projects): the indices not yet taken
    inprog,      \* buffer_unordered: the futures in its in-progress queue
    ready,       \* FuturesUnordered: its ready-to-run queue
    task,        \* the spawned tasks, by index in projects
    rows,        \* the collected Vec<SearchResultRow>
    pb,          \* progress bar position
    summary,     \* the count printed by "Found {} matches.", -1 before
    completed    \* the tasks that have completed and are not yet collected, in order

vars == <<script, srv, phase, page, projects, cliMax, repos,
          requested, exitErr, pending, inprog, ready, task, rows, pb,
          summary, completed>>

----------------------------------------------------------------------------
\* Bounds of the model.

\* Repositories the listing of a whole run returns.
NumRepos == 6
\* Page requests the listing server answers in one listing.
MaxPages == 3
\* Requests the search server answers for one repository in the searcher's own runs.
MaxAttempts == 7

\* Program constants.
CONCURRENT_REQUESTS == 5
max_retries == 5
TOO_MANY_REQUESTS == 429

----------------------------------------------------------------------------
\* Text: a string is a sequence of one-character strings.

Digits == {"0", "1", "2", "3", "4", "5", "6", "7", "8", "9"}

DigitVal(c) ==
    CASE c = "0" -> 0 [] c = "1" -> 1 [] c = "2" -> 2 [] c = "3" -> 3
      [] c = "4" -> 4 [] c = "5" -> 5 [] c = "6" -> 6 [] c = "7" -> 7
      [] c = "8" -> 8 [] c = "9" -> 9

RECURSIVE DigitsVal(_)
DigitsVal(s) ==
    IF s = <<>> THEN 0
    ELSE 10 * DigitsVal(SubSeq(s, 1, Len(s) - 1)) + DigitVal(s[Len(s)])

AllDigits(s) == Len(s) > 0 /\ \A i \in 1..Len(s) : s[i] \in Digits

None == [some |-> FALSE]
Some(v) == [some |-> TRUE, v |-> v]

\* str::parse::<u64>: an optional "+", then one or more digits.
ParseU64(s) ==
    IF AllDigits(s) THEN Some(DigitsVal(s))
    ELSE IF Len(s) > 1 /\ s[1] = "+" /\ AllDigits(Tail(s)) THEN Some(DigitsVal(Tail(s)))
    ELSE None

\* str::parse::<i32>: an optional sign, then one or more digits.
ParseI32(s) ==
    IF AllDigits(s) THEN Some(DigitsVal(s))
    ELSE IF Len(s) > 1 /\ s[1] = "+" /\ AllDigits(Tail(s)) THEN Some(DigitsVal(Tail(s)))
    ELSE IF Len(s) > 1 /\ s[1] = "-" /\ AllDigits(Tail(s)) THEN Some(0 - DigitsVal(Tail(s)))
    ELSE None

\* StatusCode::is_success
IsSuccess(status) == status >= 200 /\ status <= 299

\* A response header: absent, or present with a value.
NoHeader == [present |-> FALSE, val |-> <<>>]
Header(s) == [present |-> TRUE, val |-> s]

RECURSIVE Flatten(_)
Flatten(ss) == IF ss = <<>> THEN <<>> ELSE Head(ss) \o Flatten(Tail(ss))

SeqRange(s) == {s[i] : i \in 1..Len(s)}

----------------------------------------------------------------------------
\* The listing server: what it may answer to a page request.

ListOk(items, next) ==
    [transport |-> TRUE, status |-> 200, next |-> next, json |-> TRUE, items |-> items]
ListStatus(st) ==
    [transport |-> TRUE, status |-> st, next |-> Header(<<"2">>), json |-> TRUE, items |-> <<1>>]
ListBadBody ==
    [transport |-> TRUE, status |-> 200, next |-> Header(<<"2">>), json |-> FALSE, items |-> <<>>]
ListNoResponse ==
    [transport |-> FALSE, status |-> 0, next |-> NoHeader, json |-> FALSE, items |-> <<>>]

NextHeaders ==
    {NoHeader, Header(<<>>), Header(<<"1">>), Header(<<"3">>), Header(<<"x">>)}
PageBodies == {<<>>, <<1>>, <<2, 3>>}

ListResponses ==
    {ListOk(b, h) : b \in PageBodies, h \in NextHeaders}
      \cup {ListStatus(404), ListBadBody, ListNoResponse}

RECURSIVE SeqsOfLen(_, _)
SeqsOfLen(S, n) ==
    IF n = 0 THEN {<<>>}
    ELSE {Append(s, x) : s \in SeqsOfLen(S, n - 1), x \in S}

\* The listing of a whole run: NumRepos repositories on two pages.
FirstPageLen == 4
CataloguePage1 == [i \in 1..FirstPageLen |-> i]
CataloguePage2 == [i \in 1..(NumRepos - FirstPageLen) |-> i + FirstPageLen]
RunScripts ==
    { <<ListOk(CataloguePage1, Header(<<"2">>)), ListOk(CataloguePage2, NoHeader)>>,
      <<ListOk(CataloguePage1, Header(<<"2">>)), ListStatus(500)>>,
      <<ListOk(CataloguePage1, Header(<<"2">>)), ListBadBody>>,
      <<ListNoResponse>> }

----------------------------------------------------------------------------
\* get_projects: one turn of its loop, from the request to break, return or the
\* next request.

ListErrStatus(st) == <<"Failed to fetch projects", st>>
ListErrJson == <<"Failed to parse projects JSON">>
ListErrSend == <<"send error">>

\* As NextPageOf, without the filter on the empty value.
NextPageOfUnfiltered(resp) ==
    IF resp.next.present THEN Some(resp.next.val) ELSE None

\* let next_page = headers.get("x-next-page")...filter(|s| !s.is_empty())
NextPageOf(resp) ==
    IF resp.next.present /\ resp.next.val # <<>> THEN Some(resp.next.val) ELSE None

\* As AdvancePage, counting on whatever the header says.
AdvancePageByOne(next, cur) == cur + 1

\* page = next.parse().unwrap_or(page + 1)
AdvancePage(next, cur) ==
    IF ParseI32(next).some THEN ParseI32(next).v ELSE cur + 1

\* Vec::truncate
Truncate(v, m) == IF m < Len(v) THEN SubSeq(v, 1, m) ELSE v

\* main on Ok(p) from get_projects: if let Some(m) = max { p.truncate(m) }, then
\* the stream over projects is built; nothing is spawned before the first poll.
MainListed(ps) ==
    LET p == IF cliMax.some THEN Truncate(ps, cliMax.v) ELSE ps IN
    /\ phase' = "searching"
    /\ repos' = p
    /\ pending' = [i \in 1..Len(p) |-> i]
    /\ task' = [i \in 1..Len(p) |->
                  [st |-> "unspawned", spawns |-> 0, retry_count |-> 0, reqs |-> 0,
                   waits |-> <<>>,
                   wait_time |-> 0, ret |-> <<"none">>, out |-> None]]
    /\ exitErr' = <<"none">>

\* As MainFailed, going on with the pages fetched so far.
MainFailedLenient(e) == MainListed(projects)

\* main on Err(e) from get_projects: the ? operator returns it.
MainFailed(e) ==
    /\ phase' = "aborted"
    /\ exitErr' = e
    /\ UNCHANGED <<repos, pending, task>>

GetProjectsStep ==
    /\ phase = "listing"
    /\ Len(requested) <= Len(script)
    /\ LET resp == script[Len(requested)] IN
       IF ~resp.transport THEN
           MainFailed(ListErrSend) /\ UNCHANGED <<page, projects, requested>>
       ELSE IF ~IsSuccess(resp.status) THEN
           MainFailed(ListErrStatus(resp.status))
             /\ UNCHANGED <<page, projects, requested>>
       ELSE IF ~resp.json THEN
           MainFailed(ListErrJson) /\ UNCHANGED <<page, projects, requested>>
       ELSE IF resp.items = <<>> THEN
           /\ MainListed(projects)
           /\ UNCHANGED <<page, projects, requested>>
       ELSE IF NextPageOf(resp).some THEN
           /\ page' = AdvancePage(NextPageOf(resp).v, page)
           /\ projects' = projects \o resp.items
           /\ requested' = Append(requested, page')
           /\ UNCHANGED <<phase, exitErr, repos, pending, task>>
       ELSE
           /\ MainListed(projects \o resp.items)
           /\ projects' = projects \o resp.items
           /\ UNCHANGED <<page, requested>>
    /\ UNCHANGED <<script, srv, cliMax, inprog, ready, rows, pb,
                   summary, completed>>

----------------------------------------------------------------------------
\* models.rs: Project, GitLabBlobResult, SearchResultRow.

PathsWithNamespace ==
    << <<"h", "/", "q">>, <<"g", "/", "s", "/", "p">>, <<"s", "o", "l", "o">>,
       <<"/", "x">> >>

\* The Project record the listing returns for id.
Project(id) ==
    [id |-> id,
     name |-> <<"name", id>>,
     path_with_namespace |-> PathsWithNamespace[(id % Len(PathsWithNamespace)) + 1],
     http_url_to_repo |-> <<"url", id>>,
     path |-> <<"path", id>>]

Blob(file, line, data) == [filename |-> file, startline |-> line, data |-> data]

\* The matches the search endpoint holds for project id.
ServerBlobs(id) ==
    CASE id % 4 = 1 -> <<Blob(<<"a.rs", id>>, Some(10), "fn"), Blob(<<"b.rs", id>>, None, "let")>>
      [] id % 4 = 2 -> <<Blob(<<"c.rs", id>>, Some(0), "use")>>
      [] id % 4 = 3 -> <<Blob(<<"d.rs", id>>, None, "mod")>>
      [] OTHER      -> <<>>

\* As FirstSegment, without the split: the whole path.
FirstSegmentUnsplit(s) == s

\* str::split('/').next().unwrap_or(""): the text before the first '/'.
RECURSIVE FirstSegment(_)
FirstSegment(s) ==
    IF s = <<>> \/ Head(s) = "/" THEN <<>> ELSE <<Head(s)>> \o FirstSegment(Tail(s))

\* Option::unwrap_or
UnwrapOr(opt, d) == IF opt.some THEN opt.v ELSE d

from_api_result(project, blob) ==
    [group_path |-> FirstSegment(project.path_with_namespace),
     project_name |-> project.name,
     project_id |-> project.id,
     file_name |-> blob.filename,
     line_number |-> UnwrapOr(blob.startline, 0),
     snippet |-> blob.data,
     clone_url |-> project.http_url_to_repo,
     project_folder |-> project.path]

\* results.into_iter().map(|r| from_api_result(&p, &r)).collect()
MapRows(p, results) == [k \in 1..Len(results) |-> from_api_result(p, results[k])]

----------------------------------------------------------------------------
\* The search server: what it may answer to one search request.

SearchOk == [transport |-> TRUE, status |-> 200, retry_after |-> NoHeader, json |-> TRUE]
SearchBadBody == [transport |-> TRUE, status |-> 200, retry_after |-> NoHeader, json |-> FALSE]
SearchStatus(st) == [transport |-> TRUE, status |-> st, retry_after |-> NoHeader, json |-> TRUE]
SearchNoResponse == [transport |-> FALSE, status |-> 0, retry_after |-> NoHeader, json |-> FALSE]
SearchThrottled(h) ==
    [transport |-> TRUE, status |-> TOO_MANY_REQUESTS, retry_after |-> h, json |-> TRUE]

RetryAfterHeaders == {NoHeader, Header(<<"3">>), Header(<<"x">>)}
\* A failing answer may carry a retry-after header too: only a 429 reads it.
FaultResponses ==
    {SearchBadBody, SearchStatus(403), SearchNoResponse,
     [SearchStatus(500) EXCEPT !.retry_after = Header(<<"3">>)]}
ThrottleResponses == {SearchThrottled(h) : h \in RetryAfterHeaders}

FinalResponses == {SearchOk} \cup FaultResponses

\* The answers to one repository's requests: 429s, then (if any) another answer.
RECURSIVE Throttles(_)
Throttles(n) ==
    IF n = 0 THEN {<<>>}
    ELSE {<<>>} \cup {<<t>> \o s : t \in ThrottleResponses, s \in Throttles(n - 1)}
SearchScripts(n) ==
    {s \in Throttles(n) : Len(s) = n}
      \cup {Append(s, f) : s \in Throttles(n - 1), f \in FinalResponses}

\* The search servers of a whole run: every repository is served at once, but for
\* one, which is answered as Misbehaviours says.
Misbehaviours ==
    { <<SearchStatus(403)>>, <<SearchBadBody>>, <<SearchNoResponse>>,
      <<SearchThrottled(NoHeader), SearchOk>>,
      <<SearchThrottled(Header(<<"3">>)), SearchThrottled(NoHeader), SearchStatus(403)>>,
      [k \in 1..(max_retries + 1) |-> SearchThrottled(NoHeader)] }
AllServed == [id \in 1..NumRepos |-> <<SearchOk>>]
RunServers ==
    {AllServed} \cup {[AllServed EXCEPT ![j] = m] : j \in {2, NumRepos}, m \in Misbehaviours}

----------------------------------------------------------------------------
\* search_in_project: one turn of its loop, from the response to the sleep or
\* the return; and the closure main spawns around it.

ErrMaxRetries(id) == <<"Max retries exceeded for project", id, "429 Too Many Requests">>
ErrSearchFailed(id, st) == <<"Search failed for project", id, st>>
ErrSearchSend(id) == <<"send error">>
ErrSearchJson(id) == <<"decode error">>

Ok(v) == <<"Ok", v>>
Err(e) == <<"Err", e>>
IsOk(r) == r[1] = "Ok"
IsErr(r) == r[1] = "Err"

\* As Pow2, a product where the power is meant.
Pow2AsProduct(k) == 2 * k

\* 2_u64.pow(retry_count)
RECURSIVE Pow2(_)
Pow2(k) == IF k = 0 THEN 1 ELSE 2 * Pow2(k - 1)

\* As WaitTime, the header's wait doubled on every retry.
WaitTimeScaled(resp, retry_count) ==
    IF resp.retry_after.present
    THEN UnwrapOr(ParseU64(resp.retry_after.val), 1) * Pow2(retry_count)
    ELSE Pow2(retry_count)

\* let wait_time = if let Some(retry_after) = headers.get("retry-after") {..} else {..}
WaitTime(resp, retry_count) ==
    IF resp.retry_after.present
    THEN UnwrapOr(ParseU64(resp.retry_after.val), 1)
    ELSE Pow2(retry_count)

\* As IsRateLimited, taking every non-success status for a rate limit.
IsRateLimitedAnyError(resp) == resp.transport /\ ~IsSuccess(resp.status)

\* As IsRateLimited, a request that got no response is taken for a rate limit too.
IsRateLimitedOrUnsent(resp) == ~resp.transport \/ resp.status = TOO_MANY_REQUESTS

\* if response.status() == StatusCode::TOO_MANY_REQUESTS
IsRateLimited(resp) == resp.transport /\ resp.status = TOO_MANY_REQUESTS

\* As MayRetry, the counter compared with <=: one retry too many.
MayRetryOffByOne(retry_count) == retry_count <= max_retries

\* Whether a 429 at this retry count is answered by another wait.
MayRetry(retry_count) == retry_count < max_retries

\* What search_in_project returns on a response that is not a retried 429.
SearchReturn(id, resp) ==
    IF ~resp.transport THEN Err(ErrSearchSend(id))
    ELSE IF IsRateLimited(resp) THEN Err(ErrMaxRetries(id))
    ELSE IF ~IsSuccess(resp.status) THEN Err(ErrSearchFailed(id, resp.status))
    ELSE IF ~resp.json THEN Err(ErrSearchJson(id))
    ELSE Ok(ServerBlobs(id))

\* The spawned closure's value: Some(rows) on a non-empty Ok, None otherwise.
TaskOutput(p, ret) ==
    IF IsOk(ret) /\ ret[2] # <<>> THEN Some(MapRows(p, ret[2])) ELSE None

\* The task's waker: FuturesUnordered enqueues a future that is not queued.
Wake(q, i) == IF i \in SeqRange(q) THEN q ELSE Append(q, i)

SearchRespond(i) ==
    /\ phase = "searching"
    /\ i \in DOMAIN task
    /\ task[i].st = "requesting"
    /\ task[i].reqs <= Len(srv[repos[i]])
    /\ LET resp == srv[repos[i]][task[i].reqs] IN
       IF IsRateLimited(resp) /\ MayRetry(task[i].retry_count)
       THEN LET w == WaitTime(resp, task[i].retry_count) IN
            /\ task' = [task EXCEPT ![i].st = "sleeping",
                                    ![i].wait_time = w,
                                    ![i].waits = Append(@, w)]
            /\ UNCHANGED <<ready, completed>>
       ELSE LET r == SearchReturn(Project(repos[i]).id, resp) IN
            /\ task' = [task EXCEPT ![i].st = "complete",
                                    ![i].ret = r,
                                    ![i].out = TaskOutput(Project(repos[i]), r)]
            /\ ready' = Wake(ready, i)
            /\ completed' = Append(completed, i)
    /\ UNCHANGED <<script, srv, phase, page, projects, cliMax, repos, requested,
                   exitErr, pending, inprog, rows, pb, summary>>

\* As RetryCountAfterWait, the increment forgotten.
RetryCountAfterWaitKept(retry_count) == retry_count

\* retry_count += 1
RetryCountAfterWait(retry_count) == retry_count + 1

\* tokio::time::sleep(wait_time) elapses: retry_count += 1; continue, and the
\* loop sends the next request.
BackoffElapsed(i) ==
    /\ phase = "searching"
    /\ i \in DOMAIN task
    /\ task[i].st = "sleeping"
    /\ task' = [task EXCEPT ![i].st = "requesting",
                            ![i].retry_count = RetryCountAfterWait(@),
                            ![i].reqs = @ + 1]
    /\ UNCHANGED <<script, srv, phase, page, projects, cliMax,
                   repos, requested, exitErr, pending, inprog, ready, rows,
                   pb, summary, completed>>

----------------------------------------------------------------------------
\* main: stream::iter(projects).map(spawn).buffer_unordered(5), collected.

\* As MayDispatch, the cap compared with <=: one future too many.
MayDispatchOffByOne == Cardinality(inprog) <= CONCURRENT_REQUESTS /\ pending # <<>>

\* As MayDispatch, but the last project is never taken from the stream.
MayDispatchButLast == Cardinality(inprog) < CONCURRENT_REQUESTS /\ Len(pending) > 1

\* As MayDispatch, in batches: the next five only when the last five are collected.
MayDispatchInBatches ==
    /\ Cardinality(inprog) < CONCURRENT_REQUESTS /\ pending # <<>>
    /\ \A j \in inprog :
         (j - 1) \div CONCURRENT_REQUESTS = (Head(pending) - 1) \div CONCURRENT_REQUESTS

\* BufferUnordered::poll_next fills the queue before it polls it.
MayDispatch == Cardinality(inprog) < CONCURRENT_REQUESTS /\ pending # <<>>

\* The stream yields the next project; the closure spawns its task, which sends
\* its first request; the JoinHandle is pushed and queued to be polled.
Dispatch ==
    /\ phase = "searching"
    /\ MayDispatch
    /\ LET i == Head(pending) IN
       /\ pending' = Tail(pending)
       /\ inprog' = inprog \cup {i}
       /\ ready' = Append(ready, i)
       /\ task' = [task EXCEPT ![i].st = "requesting", ![i].spawns = @ + 1,
                               ![i].reqs = 1]
    /\ UNCHANGED <<script, srv, phase, page, projects, cliMax,
                   repos, requested, exitErr, rows, pb, summary, completed>>

\* As Collected, without the flatten: one row for each task output.
CollectedFirstRow(out) == IF out.some THEN <<Head(out.v)>> ELSE <<>>

\* As Collected, the rows of a task taken last first.
CollectedReversed(out) ==
    IF out.some THEN [k \in 1..Len(out.v) |-> out.v[Len(out.v) + 1 - k]] ELSE <<>>

\* The rows a yielded task output adds: filter_map, map(stream::iter), flatten.
Collected(out) == IF out.some THEN out.v ELSE <<>>

\* As Extend, the new rows put before the rows collected so far.
ExtendAtFront(acc, items) == items \o acc

\* As Extend, the streams of rows merged: a new row goes in before the last
\* row collected so far.
ExtendInterleaved(acc, items) ==
    IF acc = <<>> \/ items = <<>> THEN acc \o items
    ELSE SubSeq(acc, 1, Len(acc) - 1) \o <<Head(items)>> \o <<acc[Len(acc)]>>
           \o Tail(items)

\* flatten().collect(): the rows of one yielded output are pushed, in order, at
\* the end of the Vec.
Extend(acc, items) == acc \o items

RemoveFrom(q, i) == SelectSeq(q, LAMBDA x : x # i)

\* FuturesUnordered::poll_next takes the head of the ready-to-run queue and polls
\* its JoinHandle: a complete task is yielded and collected, another stays in the
\* queue's set with its waker registered.
PollNext ==
    /\ phase = "searching"
    /\ ~MayDispatch
    /\ ready # <<>>
    /\ LET i == Head(ready) IN
       /\ ready' = Tail(ready)
       /\ IF task[i].st = "complete"
          THEN /\ inprog' = inprog \ {i}
               /\ pb' = pb + 1
               /\ rows' = Extend(rows, Collected(task[i].out))
               /\ completed' = RemoveFrom(completed, i)
          ELSE UNCHANGED <<inprog, pb, rows, completed>>
    /\ UNCHANGED <<script, srv, phase, page, projects, cliMax,
                   repos, requested, exitErr, pending, task, summary>>

\* As Finish, taken when the stream of projects is exhausted, whatever is in flight.
FinishEarly ==
    /\ phase = "searching"
    /\ pending = <<>>
    /\ phase' = "done"
    /\ summary' = Len(rows)
    /\ UNCHANGED <<script, srv, page, projects, cliMax, repos, requested, exitErr,
                   pending, inprog, ready, task, rows, pb, completed>>

\* The stream ends: collect returns, "Found {} matches." is printed.
Finish ==
    /\ phase = "searching"
    /\ pending = <<>>
    /\ inprog = {}
    /\ phase' = "done"
    /\ summary' = Len(rows)
    /\ UNCHANGED <<script, srv, page, projects, cliMax, repos,
                   requested, exitErr, pending, inprog, ready, task, rows,
                   pb, completed>>

----------------------------------------------------------------------------
\* Specifications.

InitProgram ==
    /\ phase = "listing"
    /\ page = 1
    /\ projects = <<>>
    /\ requested = <<1>>
    /\ repos = <<>>
    /\ exitErr = <<"none">>
    /\ pending = <<>>
    /\ inprog = {}
    /\ ready = <<>>
    /\ task = <<>>
    /\ rows = <<>>
    /\ pb = 0
    /\ summary = 0 - 1
    /\ completed = <<>>

\* A whole run over NumRepos repositories.
Init ==
    /\ InitProgram
    /\ script \in RunScripts
    /\ cliMax = None
    /\ srv \in RunServers

Tasks == 1..Len(repos)

Next ==
    \/ GetProjectsStep
    \/ Dispatch
    \/ \E i \in Tasks : SearchRespond(i)
    \/ \E i \in Tasks : BackoffElapsed(i)
    \/ PollNext
    \/ Finish

Spec == Init /\ [][Next]_vars

\* The searcher alone: a run over one repository, answered in every way.
InitSearch ==
    /\ InitProgram
    /\ \E id \in {1, 4} : script = <<ListOk(<<id>>, NoHeader)>>
    /\ cliMax = None
    /\ \E s \in SearchScripts(MaxAttempts) : srv = [id \in 1..NumRepos |-> s]

SpecSearch == InitSearch /\ [][Next]_vars

\* The paginator alone, answered in every way, up to main's handing over.
InitList ==
    /\ InitProgram
    /\ script \in SeqsOfLen(ListResponses, MaxPages)
    /\ cliMax \in {None, Some(2)}
    /\ srv = AllServed

NextList == GetProjectsStep

SpecList == InitList /\ [][NextList]_vars

\* Whole runs where every enabled step is eventually taken: the runtime runs
\* every runnable task, every request is answered and every sleep elapses. One
\* repository, the second or the last, is rate limited once and then refused.
FairServers ==
    {[AllServed EXCEPT ![j] = m] :
        j \in {2, NumRepos},
        m \in {<<SearchThrottled(NoHeader), SearchStatus(403)>>}}
FairInit ==
    /\ InitProgram
    /\ script \in RunScripts
    /\ cliMax = None
    /\ srv \in FairServers

FairSpec == FairInit /\ [][Next]_vars /\ WF_vars(Next)

\* Whole runs for the order of dispatch and of the rows: every repository is
\* served at once, but for one whose search is rate limited once and then served
\* or left without a response, or is left without a response at once.
OrderServers ==
    {AllServed,
     [AllServed EXCEPT ![2] = <<SearchThrottled(NoHeader), SearchOk>>],
     [AllServed EXCEPT ![2] = <<SearchThrottled(NoHeader), SearchNoResponse>>],
     [AllServed EXCEPT ![NumRepos] = <<SearchNoResponse>>]}
OrderInit ==
    /\ InitProgram
    /\ script \in RunScripts
    /\ cliMax = None
    /\ srv \in OrderServers

SpecOrder == OrderInit /\ [][Next]_vars

----------------------------------------------------------------------------
\* Properties.

InFlight == {i \in DOMAIN task : task[i].st \in {"requesting", "sleeping"}}
Settled(i) == task[i].st = "complete" /\ i \notin inprog
Throttled(r) == r.transport /\ r.status = 429
ScriptOf(i) == srv[repos[i]]

SeqToBag(q) == [x \in SeqRange(q) |-> Cardinality({k \in 1..Len(q) : q[k] = x})]

\* C1: at most 5 search invocations are dispatched and not yet completed, in
\* every state of a run over more than 5 repositories.
C1_AtMostFiveInFlight == Cardinality(InFlight) <= 5

C1_Witness ==
    /\ Cardinality(InFlight) = 5
    /\ pending # <<>>
    /\ \E i \in DOMAIN task : task[i].st = "sleeping"

\* C2: the rows collected are, as a multiset, the mapped matches of the
\* repositories whose search returned Ok and has been collected, and nothing of
\* a repository whose search returned Err; at the end of the run that is every
\* repository, and a failed search does not keep the run from its end.
RowsOfOk(i) ==
    IF Settled(i) /\ IsOk(task[i].ret)
    THEN [k \in 1..Len(ServerBlobs(repos[i])) |->
            from_api_result(Project(repos[i]), ServerBlobs(repos[i])[k])]
    ELSE <<>>
C2_RowsAreThoseOfOkRepos ==
    phase \in {"searching", "done"} =>
        /\ SeqToBag(rows) = SeqToBag(Flatten([i \in 1..Len(repos) |-> RowsOfOk(i)]))
        /\ phase = "done" => \A i \in 1..Len(repos) : Settled(i)

C2_Witness ==
    /\ phase = "done"
    /\ IsOk(task[1].ret) /\ IsOk(task[3].ret)
    /\ task[2].ret = Err(ErrSearchFailed(2, 403))
    /\ \E k \in 1..Len(rows) : rows[k].project_id = 1
    /\ \E k \in 1..Len(rows) : rows[k].project_id = 3
    /\ \A k \in 1..Len(rows) : rows[k].project_id # 2

\* C3: every repository handed to the fan-out is eventually dispatched, and none
\* is dispatched twice: a rate-limited one is retried inside its one invocation.
C3_DispatchedExactlyOnce ==
    /\ [](\A i \in DOMAIN task : task[i].spawns <= 1)
    /\ (phase = "searching") ~> (\A i \in DOMAIN task : task[i].spawns = 1)

C3_Witness ==
    /\ \A i \in DOMAIN task : task[i].spawns = 1
    /\ Len(repos) > CONCURRENT_REQUESTS
    /\ \E i \in DOMAIN task : task[i].reqs > 1

\* C4: when requests are answered and sleeps elapse, the run finishes; then every
\* repository has succeeded or failed, none is pending or in flight, and the
\* count of matches is printed, however many repositories failed.
C4_RunFinishes ==
    /\ [](phase = "done" =>
            /\ pending = <<>> /\ inprog = {}
            /\ \A i \in DOMAIN task : task[i].st = "complete" /\ task[i].ret # <<"none">>
            /\ summary = Len(rows))
    /\ (phase = "searching") ~> (phase = "done")

C4_Witness ==
    /\ phase = "done"
    /\ Len(repos) > CONCURRENT_REQUESTS
    /\ \E i \in DOMAIN task : IsErr(task[i].ret)
    /\ summary > 0

\* C5: a repository answered 429 on every request gets 6 requests and 5 waits, and
\* its search then returns the max-retries error naming it; no 7th request.
AlwaysThrottled(i) ==
    Len(ScriptOf(i)) >= 6 /\ \A k \in 1..Len(ScriptOf(i)) : Throttled(ScriptOf(i)[k])
C5_SixRequestsThenFail ==
    \A i \in DOMAIN task :
        AlwaysThrottled(i) =>
            /\ task[i].reqs <= 6
            /\ Len(task[i].waits) <= 5
            /\ task[i].st = "complete" =>
                 /\ task[i].reqs = 6
                 /\ Len(task[i].waits) = 5
                 /\ task[i].ret = Err(ErrMaxRetries(repos[i]))
                 /\ task[i].out = None

C5_Witness ==
    \E i \in DOMAIN task :
        AlwaysThrottled(i) /\ task[i].st = "complete" /\ phase = "done" /\ rows = <<>>

\* C6: a 429 with retry-after: 3 is followed by a wait of 3 seconds, whatever
\* the retry counter is.
C6_RetryAfterIsTheWait ==
    \A i \in DOMAIN task : \A k \in 1..Len(task[i].waits) :
        ScriptOf(i)[k].retry_after = Header(<<"3">>) => task[i].waits[k] = 3

C6_Witness ==
    \E i \in DOMAIN task :
        /\ Len(task[i].waits) = 5
        /\ ScriptOf(i)[1].retry_after = Header(<<"3">>)
        /\ ScriptOf(i)[5].retry_after = Header(<<"3">>)
        /\ ScriptOf(i)[4].retry_after = NoHeader
        /\ task[i].st = "sleeping" /\ task[i].wait_time = 3 /\ task[i].retry_count = 4

\* C7: a 429 without a retry-after header at retry counter k is followed by a wait
\* of 2^k seconds: 1, 2, 4, 8, 16 for k = 0..4.
C7_BackoffIsPowerOfTwo ==
    \A i \in DOMAIN task : \A k \in 1..Len(task[i].waits) :
        ~ScriptOf(i)[k].retry_after.present => task[i].waits[k] = <<1, 2, 4, 8, 16>>[k]

C7_Witness ==
    \E i \in DOMAIN task :
        /\ task[i].waits = <<1, 2, 4, 8, 16>>
        /\ task[i].st = "sleeping" /\ task[i].retry_count = 4

\* C8: an answer with a non-success status other than 429 ends the search at
\* once with the error naming the repository and the status: no wait and no
\* request follows it, also after 429 retries.
StatusFault(r) == r.transport /\ ~(r.status >= 200 /\ r.status <= 299) /\ r.status # 429
C8_OtherStatusNotRetried ==
    \A i \in DOMAIN task : \A k \in 1..Len(ScriptOf(i)) :
        StatusFault(ScriptOf(i)[k]) =>
            /\ task[i].reqs <= k
            /\ Len(task[i].waits) < k
            /\ (task[i].st = "complete" /\ task[i].reqs = k) =>
                 task[i].ret = Err(ErrSearchFailed(repos[i], ScriptOf(i)[k].status))

C8_Witness ==
    \E i \in DOMAIN task :
        /\ task[i].st = "complete" /\ task[i].reqs = 3
        /\ StatusFault(ScriptOf(i)[3])
        /\ ScriptOf(i)[3].retry_after.present
        /\ task[i].ret = Err(ErrSearchFailed(repos[i], 500))

\* C9: when the pages served end with an empty page or with a page without a
\* (non-empty) next-page header, get_projects stops there and returns the
\* pages received, concatenated in the order received.
LastPage(r) == r.items = <<>> \/ ~r.next.present \/ r.next.val = <<>>
GoodPage(r) == r.transport /\ r.status = 200 /\ r.json
C9_ListingIsConcatenation ==
    /\ \A k \in 1..(Len(requested) - 1) : GoodPage(script[k]) /\ ~LastPage(script[k])
    /\ phase = "searching" =>
         /\ LastPage(script[Len(requested)])
         /\ projects = Flatten([k \in 1..Len(requested) |-> script[k].items])

C9_Witness ==
    /\ phase = "searching"
    /\ Len(requested) = 3
    /\ projects = <<2, 3, 1, 2, 3>>
    /\ ~script[3].next.present

\* C10: a page request that fails (no answer, a non-success status, a body that
\* does not parse) fails the listing: no page is requested after it, the pages
\* fetched before it are not handed on, and main returns the error with no
\* search dispatched.
FailedPage(r) == ~r.transport \/ ~(r.status >= 200 /\ r.status <= 299) \/ ~r.json
C10_ListingFailureIsFatal ==
    \A k \in 1..Len(requested) :
        (k <= Len(script) /\ FailedPage(script[k])) =>
            /\ Len(requested) = k
            /\ phase \in {"listing", "aborted"}
            /\ repos = <<>> /\ task = <<>> /\ pending = <<>> /\ inprog = {}
            /\ rows = <<>> /\ summary = 0 - 1
            /\ phase = "aborted" => exitErr # <<"none">> /\ ~ENABLED Next

C10_Witness ==
    /\ phase = "aborted"
    /\ Len(requested) = 2
    /\ projects # <<>>
    /\ repos = <<>>
    /\ exitErr = ListErrStatus(500)

\* C11: the row of a repository and a match has the text before the first '/'
\* of the namespaced path as its group, the match's start line (0 when there is
\* none) as its line, and the repository's name, id, clone URL and folder and
\* the match's file and snippet as they are.
IsFirstSegmentOf(g, path) ==
    /\ Len(g) <= Len(path)
    /\ \A k \in 1..Len(g) : g[k] = path[k] /\ g[k] # "/"
    /\ Len(g) = Len(path) \/ path[Len(g) + 1] = "/"
C11_RowDerivation ==
    \A i \in DOMAIN task :
        task[i].out.some =>
            LET p == Project(repos[i])
                bs == ServerBlobs(repos[i])
                out == task[i].out.v
            IN  /\ Len(out) = Len(bs)
                /\ \A k \in 1..Len(out) :
                     /\ IsFirstSegmentOf(out[k].group_path, p.path_with_namespace)
                     /\ out[k].line_number =
                          (IF bs[k].startline.some THEN bs[k].startline.v ELSE 0)
                     /\ out[k].project_name = p.name
                     /\ out[k].project_id = p.id
                     /\ out[k].clone_url = p.http_url_to_repo
                     /\ out[k].project_folder = p.path
                     /\ out[k].file_name = bs[k].filename
                     /\ out[k].snippet = bs[k].data

C11_Witness ==
    /\ task # <<>>
    /\ task[1].out.some /\ task[3].out.some
    /\ task[1].out.v[1].group_path = <<"g">>
    /\ task[1].out.v[1].line_number = 10
    /\ task[1].out.v[2].line_number = 0
    /\ task[3].out.v[1].group_path = <<>>
    /\ \E k \in 1..Len(rows) : rows[k].group_path = <<"s", "o", "l", "o">>

\* C12: a 429 whose retry-after header is present and is no number of seconds is
\* followed, at retry counter k, by a wait of 2^k seconds, as without the header.
C12_UnparsableHeaderBacksOff ==
    \A i \in DOMAIN task : \A k \in 1..Len(task[i].waits) :
        ScriptOf(i)[k].retry_after = Header(<<"x">>) =>
            task[i].waits[k] = <<1, 2, 4, 8, 16>>[k]

\* C13: after a parsed page get_projects requests another page exactly when the
\* page was not empty and had a non-empty x-next-page; it requests the header's
\* number, or the page after the current one when the header is no number.
HasNext(r) == r.items # <<>> /\ r.next.present /\ r.next.val # <<>>
HeaderPage(val, cur) ==
    CASE val = <<"1">> -> 1
      [] val = <<"3">> -> 3
      [] OTHER -> cur + 1
C14_SlotReusedAtOnce ==
    (phase = "searching" /\ pending # <<>> /\ Cardinality(InFlight) < 5) =>
        \/ ENABLED Dispatch
        \/ /\ ENABLED PollNext
           /\ \E k \in 1..Len(ready) :
                task[ready[k]].st = "complete" /\ ready[k] \in inprog

C14_Witness ==
    /\ phase = "searching"
    /\ Len(repos) > CONCURRENT_REQUESTS
    /\ task[Len(repos)].st = "requesting"
    /\ Cardinality({i \in DOMAIN task : task[i].st = "complete"}) = 1
    /\ \E i \in DOMAIN task : task[i].st = "sleeping"

\* C15: within one search invocation the retry counter starts at 0, counts the
\* waits that have elapsed, never exceeds 5, never decreases, and goes up by
\* exactly 1, only at the end of the wait that follows a 429.
C15_RetryCounter ==
    /\ [](\A i \in DOMAIN task :
            /\ task[i].retry_count \in 0..max_retries
            /\ task[i].st = "unspawned" => task[i].retry_count = 0
            /\ (task[i].st = "requesting" /\ task[i].reqs = 1) => task[i].retry_count = 0
            /\ task[i].retry_count =
                 Len(task[i].waits) - (IF task[i].st = "sleeping" THEN 1 ELSE 0))
    /\ [][\A i \in DOMAIN task :
            \/ task'[i].retry_count = task[i].retry_count
            \/ /\ task'[i].retry_count = task[i].retry_count + 1
               /\ task[i].st = "sleeping"
               /\ Throttled(ScriptOf(i)[task[i].reqs])]_vars

C15_Witness ==
    /\ phase = "done"
    /\ task[1].retry_count = 2
    /\ task[1].waits = <<3, 2>>
    /\ IsOk(task[1].ret)

\* C16: the rows of one repository stand in the aggregate in the order in which
\* the search endpoint returned its matches, whatever the order of completion.
RowsOf(rs, id) == SelectSeq(rs, LAMBDA r : r.project_id = id)
C16_RowsInMatchOrder ==
    \A i \in DOMAIN task :
        LET mine == RowsOf(rows, repos[i])
            served == ServerBlobs(repos[i]) IN
        /\ mine # <<>> =>
             /\ Settled(i)
             /\ [k \in 1..Len(mine) |-> mine[k].file_name] =
                  [k \in 1..Len(served) |-> served[k].filename]
             /\ [k \in 1..Len(mine) |-> mine[k].snippet] =
                  [k \in 1..Len(served) |-> served[k].data]
        /\ (Settled(i) /\ IsOk(task[i].ret)) => Len(mine) = Len(served)

C16_Witness ==
    /\ Len(rows) >= 3
    /\ rows[1].project_id = 3
    /\ rows[2].project_id = 1 /\ rows[2].file_name = <<"a.rs", 1>>
    /\ rows[3].project_id = 1 /\ rows[3].file_name = <<"b.rs", 1>>
    /\ \E i \in DOMAIN task : task[i].st = "sleeping"

\* C17, as claimed: when the rows of a repository enter the aggregate, no
\* repository that produces rows and completed before it is still to be
\* collected (its rows would come after the rows of one that completed later).
Pos(q, x) == CHOOSE k \in 1..Len(q) : q[k] = x
C17_CompletionOrder ==
    [][\A b \in DOMAIN task :
         (~Settled(b) /\ Settled(b)' /\ task[b].out.some) =>
            \A a \in SeqRange(completed) :
                task[a].out.some => Pos(completed, a) >= Pos(completed, b)]_vars

\* C17, amended: the aggregate is in the order of collection. When a
\* repository is collected, its rows come after every row of the repositories
\* collected before it, and all of its rows are there.
RowIdx(rs, id) == {k \in 1..Len(rs) : rs[k].project_id = id}
C17_CollectionOrder ==
    [][\A b \in DOMAIN task :
         (~Settled(b) /\ Settled(b)') =>
            /\ Cardinality(RowIdx(rows', repos[b])) = Len(Collected(task[b].out))
            /\ \A a \in DOMAIN task :
                 Settled(a) =>
                    /\ RowIdx(rows', repos[a]) = RowIdx(rows, repos[a])
                    /\ \A x \in RowIdx(rows', repos[a]) :
                         \A y \in RowIdx(rows', repos[b]) : x < y]_vars

C17_Witness ==
    /\ phase = "done"
    /\ Len(rows) >= 2
    /\ rows[1].project_id = 5
    /\ rows[2].project_id = 5
    /\ rows[Len(rows)].project_id = 1

\* C18, as claimed: the page numbers requested in one listing strictly increase.
C18_PagesStrictlyIncrease ==
    \A k \in 1..(Len(requested) - 1) : requested[k] < requested[k + 1]

\* C19: a search request that gets no response ends the invocation at once,
\* whatever the retry counter: no request follows it and no wait, the
\* invocation returns the send error and its repository has no row; the run
\* goes on and ends with every other repository collected.
Unsent(i) ==
    /\ task[i].st \in {"requesting", "sleeping", "complete"}
    /\ task[i].reqs \in 1..Len(ScriptOf(i))
    /\ ~ScriptOf(i)[task[i].reqs].transport
C19_TransportFailureIsFinal ==
    \A i \in DOMAIN task :
        /\ \A k \in 1..Len(ScriptOf(i)) :
             ~ScriptOf(i)[k].transport => task[i].reqs <= k
        /\ Unsent(i) =>
             /\ task[i].st # "sleeping"
             /\ Len(task[i].waits) = task[i].reqs - 1
             /\ task[i].retry_count = task[i].reqs - 1
             /\ RowsOf(rows, repos[i]) = <<>>
             /\ exitErr = <<"none">>
             /\ task[i].st = "complete" =>
                  /\ task[i].ret = Err(ErrSearchSend(repos[i]))
                  /\ task[i].out = None
             /\ phase = "done" =>
                  \A j \in DOMAIN task :
                      /\ Settled(j)
                      /\ IsOk(task[j].ret) =>
                           Len(RowsOf(rows, repos[j])) = Len(ServerBlobs(repos[j]))

C19_Witness ==
    /\ phase = "done"
    /\ \E i \in DOMAIN task :
         /\ Unsent(i)
         /\ task[i].retry_count = 1
         /\ task[i].ret = Err(ErrSearchSend(repos[i]))
    /\ Len(rows) = 6

\* C20: the rows of one repository are a contiguous block of the aggregate.
C20_RowsContiguous ==
    \A a, c \in 1..Len(rows) :
        (a < c /\ rows[a].project_id = rows[c].project_id) =>
            \A b \in a..c : rows[b].project_id = rows[a].project_id

C20_Witness ==
    /\ Len(rows) >= 4
    /\ \E k \in 2..(Len(rows) - 2) :
         /\ rows[k].project_id = rows[k + 1].project_id
         /\ rows[k - 1].project_id # rows[k].project_id
         /\ rows[k + 2].project_id # rows[k].project_id
    /\ \E i \in DOMAIN task : task[i].st = "complete" /\ i \in inprog

====
